---- MODULE Spec2Model ----
(***************************************************************************)
(* Membership predicates of diesel's query builder:                        *)
(* src/diesel/src/expression/array_comparison.rs                           *)
(*                                                                         *)
(* In<T, U> / NotIn<T, U> render "<left> IN (<values>)" or the sentinels   *)
(* "1=0" / "1=1"; Many<T> is the collection adapter, Subselect the         *)
(* subquery adapter; AsInExpression converts a source into an adapter.     *)
(* walk_ast is modelled statement by statement: pc is the position of the  *)
(* render inside In::walk_ast / NotIn::walk_ast / Many::walk_ast.          *)
(***************************************************************************)
EXTENDS Integers, Sequences, FiniteSets, TLC

\* Longest source collection handed to as_in_expression.
MaxItems == 3

(***************************************************************************)
(* Operand expressions.  An operand is any QueryFragment: what its own     *)
(* walk_ast does is outside this file, so an operand is described by the   *)
(* effects its walk_ast has on the AstPass: the SQL it pushes, the binds   *)
(* it pushes, whether it calls unsafe_to_cache_prepared, the error it      *)
(* returns ("none" = Ok), whether a failing walk had already written its   *)
(* output when it failed, and its HAS_STATIC_QUERY_ID.                     *)
(***************************************************************************)
Leaf(sql, binds, unsafe, err, partial, static) ==
    [sql |-> sql, binds |-> binds, unsafe |-> unsafe, err |-> err,
     partial |-> partial, static |-> static]

ColAge     == Leaf("age", <<>>, FALSE, "none", FALSE, TRUE)
BoundLeft  == Leaf("?", <<7>>, FALSE, "none", FALSE, TRUE)
SqlLeft    == Leaf("now()", <<>>, TRUE, "none", FALSE, FALSE)
FailLeft   == Leaf("age->x", <<9>>, TRUE, "E1", FALSE, TRUE)
FailLeftW  == Leaf("age->x", <<9>>, TRUE, "E1", TRUE, TRUE)

Lefts == {ColAge, BoundLeft, SqlLeft, FailLeft, FailLeftW}

\* An element expression whose rendering fails (after / before writing).
BadExprW == Leaf("x@y", <<0>>, FALSE, "E2", TRUE, TRUE)
BadExpr  == Leaf("x@y", <<0>>, TRUE, "E3", FALSE, TRUE)

\* Host values of the source collection.
HostValues == {18, 21}

\* Bound<ST, T>: the expression a host value converts to; it renders the
\* value as one bound parameter.
Bound(v) == Leaf(ToString(v), <<v>>, FALSE, "none", FALSE, TRUE)

\* Items of a source collection: host values, or already-built expressions.
Val(v)   == [tag |-> "val", v |-> v, e |-> Bound(v)]
Expr(e)  == [tag |-> "expr", v |-> 0, e |-> e]
SourceItems == {Val(v) : v \in HostValues} \cup {Expr(BadExprW), Expr(BadExpr)}

\* <T as AsExpression<ST>>::as_expression
as_expression(item) == IF item.tag = "val" THEN Bound(item.v) ELSE item.e

SeqsUpTo(S, n) == UNION {[1..k -> S] : k \in 0..n}

Collections == {[tag |-> "coll", items |-> s] : s \in SeqsUpTo(SourceItems, MaxItems)}

\* Select queries: their SQL, whether rendering marks the statement
\* uncacheable or fails, and the rows they would return when executed.
Query(boxed, q, rows) == [tag |-> IF boxed THEN "boxed" ELSE "select", q |-> q, rows |-> rows]

SelIds    == Leaf("SELECT id FROM users", <<>>, FALSE, "none", FALSE, TRUE)
SelWhere  == Leaf("SELECT id FROM users WHERE id IN (?, ?)", <<1, 2>>, TRUE, "none", FALSE, FALSE)
SelBad    == Leaf("SELECT id FROM", <<>>, FALSE, "E4", TRUE, TRUE)

Queries == {Query(b, q, r) : b \in BOOLEAN, q \in {SelIds, SelWhere, SelBad}, r \in {0, 2}}

Sources == Collections \cup Queries

(***************************************************************************)
(* Conversion capability                                                   *)
(***************************************************************************)
Many(expressions) == [tag |-> "Many", items |-> expressions, query |-> SelIds, rows |-> 0]
Subselect(src)    == [tag |-> "Subselect", items |-> <<>>, query |-> src.q, rows |-> src.rows]

\* The expressions collected in reverse.
CollectionAsInRev(src) ==
    Many([k \in 1..Len(src.items) |-> as_expression(src.items[Len(src.items) + 1 - k])])

\* impl AsInExpression for I: IntoIterator: map as_expression, collect.
CollectionAsIn(src) == Many([k \in 1..Len(src.items) |-> as_expression(src.items[k])])

\* impl AsInExpression for SelectStatement
SelectAsIn(src) == Subselect(src)

\* impl AsInExpression for BoxedSelectStatement
BoxedAsIn(src) == Subselect(src)

as_in_expression(src) ==
    CASE src.tag = "coll"   -> CollectionAsIn(src)
      [] src.tag = "select" -> SelectAsIn(src)
      [] src.tag = "boxed"  -> BoxedAsIn(src)

(***************************************************************************)
(* Emptiness capability                                                    *)
(***************************************************************************)
ManyIsEmptyBug(m) == FALSE
\* impl MaybeEmpty for Many: self.0.is_empty()
ManyIsEmpty(m) == Len(m.items) = 0

\* impl MaybeEmpty for Subselect: unconditionally not empty.
SubselectIsEmpty(s) == FALSE

is_empty(values) ==
    IF values.tag = "Many" THEN ManyIsEmpty(values) ELSE SubselectIsEmpty(values)

(***************************************************************************)
(* Plan identity (QueryId)                                                 *)
(***************************************************************************)
ManyHasStaticQueryIdBug == TRUE
\* impl QueryId for Many: const HAS_STATIC_QUERY_ID: bool = false
ManyHasStaticQueryId == FALSE

\* impl QueryId for Many: type QueryId = ()
ManyQueryId == "()"

\* Subselect derives its identity from the wrapped query.
ValuesHasStaticQueryId(values) ==
    IF values.tag = "Many" THEN ManyHasStaticQueryId ELSE values.query.static

ValuesQueryId(values) ==
    IF values.tag = "Many" THEN ManyQueryId ELSE "Subselect<" \o values.query.sql \o ">"

\* #[derive(QueryId)] on In / NotIn: static only if both fields are.
HasStaticQueryId(p) ==
    IF p.kind = "Many" THEN ManyHasStaticQueryId
    ELSE p.left.static /\ ValuesHasStaticQueryId(p.values)

\* #[derive(QueryId)]: the type-level identity, built from the fields' ones.
QueryIdType(p) ==
    IF p.kind = "Many" THEN ManyQueryId
    ELSE p.kind \o "<" \o p.left.sql \o ", " \o ValuesQueryId(p.values) \o ">"

\* QueryId::query_id(): Some(type id) only with a static query id.
query_id(p) == IF HasStaticQueryId(p) THEN QueryIdType(p) ELSE "None"

(***************************************************************************)
(* The rendering output (AstPass)                                          *)
(***************************************************************************)
\* AstPass::push_sql
push_sql(o, s) == [o EXCEPT !.sql = @ \o s]

\* AstPass::unsafe_to_cache_prepared
unsafe_to_cache_prepared(o) == [o EXCEPT !.cacheable = FALSE]

\* What an operand's walk_ast writes when it writes.
LeafWrite(e, o) ==
    [sql |-> o.sql \o e.sql, binds |-> o.binds \o e.binds,
     cacheable |-> o.cacheable /\ ~e.unsafe]

\* walk_ast of an operand (reborrowed AstPass): the output it leaves.
LeafWalkOut(e, o) ==
    IF e.err = "none" \/ e.partial THEN LeafWrite(e, o) ELSE o

\* walk_ast of an operand: its QueryResult.
LeafWalkRes(e) == IF e.err = "none" THEN "Ok" ELSE e.err

\* Outputs a render may start from: a fresh one, or one a statement has
\* already written to.
Outs == {[sql |-> s, binds |-> b, cacheable |-> c] :
            s \in {"", "WHERE "}, b \in {<<>>}, c \in BOOLEAN}

VARIABLES
    pred,    \* the constructed predicate: kind, left, values
    src,     \* the source as_in_expression converted (history)
    pred0,   \* the predicate as constructed (history)
    out,     \* the caller-supplied output
    before,  \* the output when the render began (history)
    pc,      \* position of the render
    i,       \* Many::walk_ast: index of the loop over self.0
    first,   \* Many::walk_ast: let mut first
    result,  \* the QueryResult of the render: "none" while running
    pass,    \* 0 before the first render, then 1, 2
    saved,   \* output and result of the first render (history)
    trace    \* the operands rendered and calls made so far (history)

vars == <<pred, src, pred0, out, before, pc, i, first, result, pass, saved, trace>>

NoOut == [sql |-> "", binds |-> <<>>, cacheable |-> TRUE]
NoPred == [kind |-> "none", left |-> ColAge, values |-> Many(<<>>)]
NoSaved == [out |-> NoOut, result |-> "none"]

Ev(k, n) == [k |-> k, n |-> n]

Init ==
    /\ pred = NoPred
    /\ src = [tag |-> "coll", items |-> <<>>]
    /\ pred0 = NoPred
    /\ out = NoOut
    /\ before = NoOut
    /\ pc = "idle"
    /\ i = 0
    /\ first = TRUE
    /\ result = "none"
    /\ pass = 0
    /\ saved = NoSaved
    /\ trace = <<>>

(***************************************************************************)
(* Construction                                                            *)
(***************************************************************************)
Construct(p, s) ==
    /\ pc = "idle"
    /\ pred' = p
    /\ pred0' = p
    /\ src' = s
    /\ pc' = "built"
    /\ UNCHANGED <<out, before, i, first, result, pass, saved, trace>>

\* In::new(left, values.as_in_expression())
InNew ==
    \E l \in Lefts, s \in Sources :
        Construct([kind |-> "In", left |-> l, values |-> as_in_expression(s)], s)

\* NotIn::new(left, values.as_in_expression())
NotInNew ==
    \E l \in Lefts, s \in Sources :
        Construct([kind |-> "NotIn", left |-> l, values |-> as_in_expression(s)], s)

\* A collection adapter rendered on its own (Many is a QueryFragment).
ManyNew ==
    \E s \in Collections :
        Construct([kind |-> "Many", left |-> ColAge, values |-> as_in_expression(s)], s)

Entry(p) == IF p.kind = "Many" THEN "many" ELSE "walk"
EntryTrace(p) == IF p.kind = "Many" THEN <<Ev("many", 0)>> ELSE <<>>

\* The caller starts the render: predicate.walk_ast(out)
StartRender ==
    /\ pc = "built"
    /\ \E o \in Outs : out' = o /\ before' = o
    /\ pass' = 1
    /\ pc' = Entry(pred)
    /\ trace' = EntryTrace(pred)
    /\ result' = "none"
    /\ UNCHANGED <<pred, src, pred0, i, first, saved>>

\* The caller renders the same predicate a second time, into an output
\* equal to the one the first render started from.
Rerender ==
    /\ pc = "done"
    /\ pass = 1
    /\ saved' = [out |-> out, result |-> result]
    /\ out' = before
    /\ pass' = 2
    /\ pc' = Entry(pred)
    /\ trace' = EntryTrace(pred)
    /\ result' = "none"
    /\ UNCHANGED <<pred, src, pred0, before, i, first>>

(***************************************************************************)
(* Rendering: In::walk_ast and NotIn::walk_ast                             *)
(***************************************************************************)
Running(kind, at) == pred.kind = kind /\ pc = at /\ result = "none"

\* child.walk_ast(out.reborrow())?  — the child writes; on Err the walk
\* returns that Err at once, on Ok it goes on at `next`.
WalkChild(e, ev, next) ==
    /\ out' = LeafWalkOut(e, out)
    /\ trace' = Append(trace, ev)
    /\ IF LeafWalkRes(e) = "Ok"
         THEN pc' = next /\ result' = result
         ELSE pc' = "done" /\ result' = LeafWalkRes(e)

\* if self.values.is_empty() { out.push_sql(sentinel) } ... Ok(())
WalkEmpty(kind, sentinel) ==
    /\ Running(kind, "walk")
    /\ is_empty(pred.values)
    /\ out' = push_sql(out, sentinel)
    /\ pc' = "done"
    /\ result' = "Ok"
    /\ UNCHANGED <<pred, src, pred0, before, i, first, pass, saved, trace>>

\* else { self.left.walk_ast(out.reborrow())?;
WalkLeft(kind) ==
    /\ Running(kind, "walk")
    /\ ~is_empty(pred.values)
    /\ WalkChild(pred.left, Ev("left", 0), "open")
    /\ UNCHANGED <<pred, src, pred0, before, i, first, pass, saved>>

\* out.push_sql(" IN (") / out.push_sql(" NOT IN (")
WalkOpen(kind, keyword) ==
    /\ Running(kind, "open")
    /\ out' = push_sql(out, keyword)
    /\ pc' = "values"
    /\ UNCHANGED <<pred, src, pred0, before, i, first, result, pass, saved, trace>>

\* self.values.walk_ast(out.reborrow())?  with values a Many: the call.
WalkValuesMany(kind) ==
    /\ Running(kind, "values")
    /\ pred.values.tag = "Many"
    /\ pc' = "many"
    /\ trace' = Append(trace, Ev("many", 0))
    /\ UNCHANGED <<pred, src, pred0, out, before, i, first, result, pass, saved>>

\* self.values.walk_ast(out.reborrow())?  with values a Subselect.
WalkValuesSubselect(kind) ==
    /\ Running(kind, "values")
    /\ pred.values.tag = "Subselect"
    /\ WalkChild(pred.values.query, Ev("sub", 0), "close")
    /\ UNCHANGED <<pred, src, pred0, before, i, first, pass, saved>>

\* out.push_sql(")"); } Ok(())
WalkClose(kind) ==
    /\ Running(kind, "close")
    /\ out' = push_sql(out, ")")
    /\ pc' = "done"
    /\ result' = "Ok"
    /\ UNCHANGED <<pred, src, pred0, before, i, first, pass, saved, trace>>

In_Empty == WalkEmpty("In", "1=0")
In_Left == WalkLeft("In")
In_OpenBug == WalkOpen("In", " NOT IN (")
In_Open == WalkOpen("In", " IN (")
In_ValuesMany == WalkValuesMany("In")
In_ValuesSubselect == WalkValuesSubselect("In")
In_Close == WalkClose("In")

NotIn_Empty == WalkEmpty("NotIn", "1=1")
NotIn_Left == WalkLeft("NotIn")
NotIn_Open == WalkOpen("NotIn", " NOT IN (")
NotIn_ValuesMany == WalkValuesMany("NotIn")
NotIn_ValuesSubselect == WalkValuesSubselect("NotIn")
NotIn_CloseBug ==
    /\ Running("NotIn", "close")
    /\ out' = unsafe_to_cache_prepared(push_sql(out, ")"))
    /\ pc' = "done"
    /\ result' = "Ok"
    /\ UNCHANGED <<pred, src, pred0, before, i, first, pass, saved, trace>>
NotIn_Close == WalkClose("NotIn")

(***************************************************************************)
(* Rendering: Many::walk_ast                                               *)
(***************************************************************************)
InMany(at) == pc = at /\ result = "none"

Many_EnterBug ==
    /\ InMany("many")
    /\ first' = TRUE
    /\ i' = 1
    /\ pc' = "loop"
    /\ UNCHANGED <<pred, src, pred0, out, before, result, pass, saved, trace>>

Many_EnterNonEmptyBug ==
    /\ InMany("many")
    /\ out' = IF Len(pred.values.items) = 0 THEN out ELSE unsafe_to_cache_prepared(out)
    /\ first' = TRUE
    /\ i' = 1
    /\ pc' = "loop"
    /\ UNCHANGED <<pred, src, pred0, before, result, pass, saved, trace>>

\* out.unsafe_to_cache_prepared(); let mut first = true; for value in &self.0
Many_Enter ==
    /\ InMany("many")
    /\ out' = unsafe_to_cache_prepared(out)
    /\ first' = TRUE
    /\ i' = 1
    /\ pc' = "loop"
    /\ UNCHANGED <<pred, src, pred0, before, result, pass, saved, trace>>

Many_SepBug ==
    /\ InMany("loop")
    /\ i <= Len(pred.values.items)
    /\ first' = FALSE
    /\ out' = push_sql(out, ", ")
    /\ pc' = "elem"
    /\ UNCHANGED <<pred, src, pred0, before, i, result, pass, saved, trace>>

\* if first { first = false; } else { out.push_sql(", "); }
Many_Sep ==
    /\ InMany("loop")
    /\ i <= Len(pred.values.items)
    /\ IF first
         THEN first' = FALSE /\ out' = out
         ELSE first' = first /\ out' = push_sql(out, ", ")
    /\ pc' = "elem"
    /\ UNCHANGED <<pred, src, pred0, before, i, result, pass, saved, trace>>

\* The element's error is kept and the loop goes on to the next element.
Many_ElemNoFailFast ==
    /\ InMany("elem")
    /\ out' = LeafWalkOut(pred.values.items[i], out)
    /\ trace' = Append(trace, Ev("elem", i))
    /\ pc' = "loop"
    /\ i' = i + 1
    /\ UNCHANGED <<pred, src, pred0, before, first, result, pass, saved>>

\* The loop consumes self.0 instead of borrowing it.
Many_ElemDrain ==
    /\ InMany("elem")
    /\ WalkChild(pred.values.items[1], Ev("elem", i), "loop")
    /\ pred' = [pred EXCEPT !.values.items = Tail(@)]
    /\ i' = i
    /\ UNCHANGED <<src, pred0, before, first, pass, saved>>

\* value.walk_ast(out.reborrow())?;
Many_Elem ==
    /\ InMany("elem")
    /\ WalkChild(pred.values.items[i], Ev("elem", i), "loop")
    /\ i' = i + 1
    /\ UNCHANGED <<pred, src, pred0, before, first, pass, saved>>

\* The loop is over: Ok(()), back in the caller (In / NotIn), or done.
Many_Return ==
    /\ InMany("loop")
    /\ i > Len(pred.values.items)
    /\ IF pred.kind = "Many"
         THEN pc' = "done" /\ result' = "Ok"
         ELSE pc' = "close" /\ result' = result
    /\ UNCHANGED <<pred, src, pred0, out, before, i, first, pass, saved, trace>>

Next ==
    \/ InNew
    \/ NotInNew
    \/ ManyNew
    \/ StartRender
    \/ Rerender
    \/ In_Empty
    \/ In_Left
    \/ In_Open
    \/ In_ValuesMany
    \/ In_ValuesSubselect
    \/ In_Close
    \/ NotIn_Empty
    \/ NotIn_Left
    \/ NotIn_Open
    \/ NotIn_ValuesMany
    \/ NotIn_ValuesSubselect
    \/ NotIn_Close
    \/ Many_Enter
    \/ Many_Sep
    \/ Many_Elem
    \/ Many_Return

Spec == Init /\ [][Next]_vars

TypeOK ==
    /\ pc \in {"idle", "built", "walk", "open", "values", "many", "loop", "elem", "close", "done"}
    /\ pass \in 0..2
    /\ out.cacheable \in BOOLEAN

(***************************************************************************)
(* Vocabulary of the properties                                            *)
(***************************************************************************)
Done == pc = "done"
Rendering == pc \notin {"idle", "built"}
IsPredicate == pred.kind \in {"In", "NotIn"}
CollectionBacked == IsPredicate /\ src.tag = "coll"
SubqueryBacked == IsPredicate /\ src.tag \in {"select", "boxed"}

RECURSIVE CommaJoin(_)
CommaJoin(ss) ==
    IF Len(ss) = 0 THEN ""
    ELSE IF Len(ss) = 1 THEN ss[1]
    ELSE ss[1] \o ", " \o CommaJoin(Tail(ss))

\* The source collection's values, as text and as parameters.
ValueTexts(s) == [k \in 1..Len(s.items) |-> ToString(s.items[k].v)]
ValueBinds(s) == [k \in 1..Len(s.items) |-> s.items[k].v]
AllHostValues(s) == \A k \in 1..Len(s.items) : s.items[k].tag = "val"

\* The operand a trace event rendered.
IsChildEv(ev) == ev.k \in {"left", "elem", "sub"}
ChildOf(ev) ==
    CASE ev.k = "left" -> pred0.left
      [] ev.k = "elem" -> pred0.values.items[ev.n]
      [] ev.k = "sub"  -> pred0.values.query
ChildEvents == {j \in 1..Len(trace) : IsChildEv(trace[j])}
FailedEvents == {j \in ChildEvents : ChildOf(trace[j]).err # "none"}
\* An operand's walk marked the output not cacheable.
Marked(e) == e.unsafe /\ (e.err = "none" \/ e.partial)

\* The operands of the predicate in render order, with the literal text
\* that precedes each and the text that closes the fragment.
Operands(p) ==
    IF p.kind = "Many" THEN p.values.items
    ELSE IF p.values.tag = "Subselect" THEN <<p.left, p.values.query>>
    ELSE IF Len(p.values.items) = 0 THEN <<>>
    ELSE <<p.left>> \o p.values.items
GlueBefore(p, j) ==
    IF p.kind = "Many" THEN (IF j = 1 THEN "" ELSE ", ")
    ELSE IF j = 1 THEN ""
    ELSE IF j = 2 THEN (IF p.kind = "In" THEN " IN (" ELSE " NOT IN (")
    ELSE ", "
Closing(p) ==
    IF p.kind = "Many" THEN ""
    ELSE IF Operands(p) = <<>> THEN (IF p.kind = "In" THEN "1=0" ELSE "1=1")
    ELSE ")"
\* Index of the first operand whose rendering fails (0: none fails).
FirstFailing(p) ==
    LET bad == {j \in 1..Len(Operands(p)) : Operands(p)[j].err # "none"}
    IN IF bad = {} THEN 0 ELSE CHOOSE j \in bad : \A k \in bad : j <= k
RECURSIVE SqlUpTo(_, _)
SqlUpTo(p, n) ==
    IF n = 0 THEN "" ELSE SqlUpTo(p, n - 1) \o GlueBefore(p, n) \o Operands(p)[n].sql
RECURSIVE BindsUpTo(_, _)
BindsUpTo(p, n) ==
    IF n = 0 THEN <<>> ELSE BindsUpTo(p, n - 1) \o Operands(p)[n].binds

(***************************************************************************)
(* C1: In / NotIn over a collection of zero elements appends exactly       *)
(* "1=0" / "1=1" and nothing else, succeeds, does not render the left      *)
(* expression (whatever it is) and adds no bound parameter.                *)
(***************************************************************************)
C1_EmptyCollectionSentinel ==
    (Done /\ CollectionBacked /\ Len(src.items) = 0) =>
        /\ result = "Ok"
        /\ out.sql = before.sql \o (IF pred.kind = "In" THEN "1=0" ELSE "1=1")
        /\ out.binds = before.binds
        /\ ChildEvents = {}

C1_Witness ==
    /\ Done /\ pred.kind = "In" /\ src.tag = "coll" /\ Len(src.items) = 0
    /\ pred.left = FailLeftW
    /\ out.sql = "WHERE 1=0" /\ out.binds = <<>> /\ result = "Ok"

(***************************************************************************)
(* C2: for a nonempty sequence of values v1..vN converted with             *)
(* as_in_expression, In / NotIn renders "<L> IN (v1, ..., vN)" /           *)
(* "<L> NOT IN (v1, ..., vN)": the items in input order with N-1           *)
(* separators, one closing parenthesis, and exactly the N values as bound  *)
(* parameters in input order (after the left expression's own).            *)
(***************************************************************************)
C2_NonemptyCollectionForm ==
    (Done /\ CollectionBacked /\ Len(src.items) >= 1 /\ AllHostValues(src)
          /\ pred.left.err = "none") =>
        /\ result = "Ok"
        /\ out.sql = before.sql \o pred.left.sql
                       \o (IF pred.kind = "In" THEN " IN (" ELSE " NOT IN (")
                       \o CommaJoin(ValueTexts(src)) \o ")"
        /\ out.binds = before.binds \o pred.left.binds \o ValueBinds(src)
        /\ Len(out.binds) = Len(before.binds) + Len(pred.left.binds) + Len(src.items)

C2_Witness ==
    /\ Done /\ pred.kind = "NotIn" /\ pred.left = ColAge
    /\ src.tag = "coll" /\ src.items = <<Val(21), Val(18), Val(21)>>
    /\ out.sql = "age NOT IN (21, 18, 21)" /\ out.binds = <<21, 18, 21>>

(***************************************************************************)
(* C3: a subquery adapter (from a select statement or a boxed one) never   *)
(* reports is_empty; rendering In / NotIn over it never takes the sentinel *)
(* branch: the left expression is rendered first, and a successful render  *)
(* is "<L> IN (<subquery>)" / "<L> NOT IN (<subquery>)", whatever number   *)
(* of rows the subquery would return.                                      *)
(***************************************************************************)
C3_SubqueryNeverEmpty ==
    (Rendering /\ SubqueryBacked) =>
        /\ ~is_empty(pred.values)
        /\ pc # "walk" => (trace # <<>> /\ trace[1] = Ev("left", 0))
        /\ (Done /\ result = "Ok") =>
              /\ out.sql = before.sql \o pred.left.sql
                             \o (IF pred.kind = "In" THEN " IN (" ELSE " NOT IN (")
                             \o pred.values.query.sql \o ")"
              /\ out.binds = before.binds \o pred.left.binds \o pred.values.query.binds

C3_Witness ==
    /\ Done /\ pred.kind = "In" /\ src.tag = "boxed" /\ src.rows = 0
    /\ pred.left = ColAge /\ result = "Ok"
    /\ out.sql = "age IN (SELECT id FROM users)"

(***************************************************************************)
(* C4 as stated: after every render of a collection-backed predicate, of   *)
(* any length N >= 0, the output is marked not cacheable.                  *)
(***************************************************************************)
C4_AlwaysNotCacheable ==
    (Done /\ CollectionBacked) => ~out.cacheable

(***************************************************************************)
(* C4 amended: a collection-backed predicate of N >= 1 elements whose left *)
(* expression renders without failure leaves the output marked not         *)
(* cacheable (also when an element then fails); with N = 0 the predicate   *)
(* leaves the mark as it was before the render.                            *)
(***************************************************************************)
C4_NonemptyNotCacheable ==
    (Done /\ CollectionBacked) =>
        /\ (Len(src.items) >= 1 /\ pred.left.err = "none") => ~out.cacheable
        /\ Len(src.items) = 0 => out.cacheable = before.cacheable

C4_Witness ==
    /\ Done /\ CollectionBacked /\ Len(src.items) = 1 /\ pred.left = ColAge
    /\ AllHostValues(src) /\ before.cacheable /\ ~out.cacheable /\ result = "Ok"

(***************************************************************************)
(* C5: while and after rendering a subquery-backed predicate, the output   *)
(* is marked not cacheable exactly if it was so marked before the render   *)
(* or an operand rendered so far (the left expression, the subquery)       *)
(* marked it: In / NotIn add no mark and clear none.                       *)
(***************************************************************************)
C5_SubqueryDefersCacheability ==
    (Rendering /\ SubqueryBacked) =>
        (~out.cacheable <=>
            (~before.cacheable \/ \E j \in ChildEvents : Marked(ChildOf(trace[j]))))

C5_Witness ==
    /\ Done /\ pred.kind = "NotIn" /\ SubqueryBacked /\ result = "Ok"
    /\ before.cacheable /\ out.cacheable
    /\ Len(trace) = 2

(***************************************************************************)
(* C6: a render fails exactly if an operand it rendered failed; it then    *)
(* returns that operand's failure, and the failing operand is the last     *)
(* thing rendered: the operands rendered are those up to the first failing *)
(* one in render order, and nothing is appended after the failing          *)
(* operand's own output.                                                   *)
(***************************************************************************)
C6_FailurePropagation ==
    Done =>
        /\ (result # "Ok") <=> (FailedEvents # {})
        /\ (result # "Ok") =>
              LET last == trace[Len(trace)]
                  f    == FirstFailing(pred0)
              IN /\ FailedEvents = {Len(trace)}
                 /\ result = ChildOf(last).err
                 /\ f > 0
                 /\ ChildOf(last) = Operands(pred0)[f]
                 /\ Cardinality(ChildEvents) = f
                 /\ out.sql = LeafWalkOut(ChildOf(last),
                                 [sql |-> before.sql \o SqlUpTo(pred0, f - 1) \o GlueBefore(pred0, f),
                                  binds |-> <<>>, cacheable |-> TRUE]).sql

C6_Witness ==
    /\ Done /\ pred.kind = "In" /\ pred.left = ColAge
    /\ src.tag = "coll" /\ src.items = <<Val(18), Expr(BadExpr), Val(21)>>
    /\ result = "E3" /\ out.sql = "age IN (18, "

(***************************************************************************)
(* C7 as stated: when the render returns a failure, the output equals its  *)
(* value before the render began.                                          *)
(***************************************************************************)
C7_NoPartialOutput ==
    (Done /\ result # "Ok") =>
        (out.sql = before.sql /\ out.binds = before.binds)

(***************************************************************************)
(* C7 amended: when the render returns a failure, the output is not rolled *)
(* back: it is its value before the render followed by exactly what was    *)
(* appended up to the failure (the operands before the failing one with    *)
(* their literal text, and what the failing operand itself wrote), their   *)
(* bound parameters included; it equals the value before the render only   *)
(* when nothing had been appended before the failure.                      *)
(***************************************************************************)
C7_FailureKeepsPrefix ==
    (Done /\ result # "Ok") =>
        LET f    == FirstFailing(pred0)
            bad  == Operands(pred0)[f]
            sql  == SqlUpTo(pred0, f - 1) \o GlueBefore(pred0, f)
                      \o (IF bad.partial THEN bad.sql ELSE "")
            prms == BindsUpTo(pred0, f - 1) \o (IF bad.partial THEN bad.binds ELSE <<>>)
        IN /\ f > 0
           /\ out.sql = before.sql \o sql
           /\ out.binds = before.binds \o prms
           /\ (out.sql = before.sql) <=> (sql = "")

C7_Witness ==
    /\ Done /\ pred.kind = "NotIn" /\ pred.left = BoundLeft
    /\ src.tag = "coll" /\ src.items = <<Val(18), Val(21), Expr(BadExprW)>>
    /\ result = "E2" /\ before.sql = ""
    /\ out.sql = "? NOT IN (18, 21, x@y" /\ out.binds = <<7, 18, 21, 0>>

(***************************************************************************)
(* C8: rendering does not change the predicate (left operand, adapter,     *)
(* elements, order, length), and rendering it a second time into an output *)
(* equal to the first one's start yields the same SQL, the same bound      *)
(* parameters and the same result.                                         *)
(***************************************************************************)
C8_RenderIdempotent ==
    /\ pc # "idle" => pred = pred0
    /\ (Done /\ pass = 2) => (out = saved.out /\ result = saved.result)

C8_Witness ==
    /\ Done /\ pass = 2 /\ CollectionBacked /\ Len(src.items) = 2
    /\ result = "Ok" /\ out = saved.out /\ pred = pred0 /\ before.sql = ""

(***************************************************************************)
(* C9: once Many::walk_ast has been invoked and has executed its first     *)
(* statement, the output is marked not cacheable: before any element is    *)
(* rendered, for zero, one or many elements, and also when an element      *)
(* fails.                                                                  *)
(***************************************************************************)
C9_ManyMarksFirst ==
    ((\E j \in 1..Len(trace) : trace[j].k = "many") /\ pc # "many") => ~out.cacheable

C9_Witness ==
    /\ Done /\ pred.kind = "Many" /\ Len(pred.values.items) = 0
    /\ before.cacheable /\ ~out.cacheable /\ result = "Ok"

(***************************************************************************)
(* C10: a collection adapter has no static query id, whatever its length   *)
(* and content, so no collection-backed predicate has one; a build over    *)
(* one collection therefore never shares a plan identity with a build of   *)
(* the same predicate over a different collection.                         *)
(***************************************************************************)
SamePlanIdentity(a, b) == query_id(a) # "None" /\ query_id(a) = query_id(b)

C10_NoStableFingerprint ==
    (pc = "built" /\ src.tag = "coll") =>
        /\ ~ValuesHasStaticQueryId(pred.values)
        /\ ~HasStaticQueryId(pred)
        /\ query_id(pred) = "None"
        /\ \A c \in Collections :
              LET other == [pred EXCEPT !.values = as_in_expression(c)]
              IN other.values # pred.values => ~SamePlanIdentity(pred, other)

C10_Witness ==
    /\ pc = "built" /\ pred.kind = "In" /\ pred.left = ColAge
    /\ src.tag = "coll" /\ Len(src.items) = 0

====
